---- MODULE Spec2Model ----
(***************************************************************************)
(* Stream Run Engine of the superego frontend (lib/api/sse.svelte.ts), the *)
(* Thread Cache it drives (lib/state/threads.svelte.ts) and the finalize   *)
(* fetch of lib/api/rest.svelte.ts.  Strings are TLA+ strings, so that     *)
(* concatenation of streamed content is real concatenation.               *)
(***************************************************************************)
EXTENDS Naturals, Sequences, FiniteSets, TLC

(* ------------------------------ bounds -------------------------------- *)

\* largest size the model lets a message list grow to: one for each message
\* and tool call, one for each character of streamed content and args
MaxSize == 4

(* --------------------------- program constants ------------------------ *)

MAX_RETRIES == 2

Null == "null"

Undefined == "undefined"

\* threadCacheStore[threadId] of a thread that has no entry
NoEntry == [absent |-> "entry"]

\* history: null
NoHistory == [absent |-> "history"]

ThreadIds == {"T1", "T2"}

\* keys of the Thread Cache: the thread IDs and the test-mode fallback key
CacheKeys == ThreadIds \cup {"test-thread"}

SessionIds == {"S1"}

Conns == {1, 2}

Nodes == {"n1", "n2"}

ChunkContents == {"a", "b"}

RunConfig == "cfg"

(* ------------------------------ messages ------------------------------ *)

HumanMsg(content) ==
    [type |-> "human", content |-> content, nodeId |-> Null]

AiMsg(content, node, toolCalls) ==
    [type |-> "ai", content |-> content, nodeId |-> node, tool_calls |-> toolCalls]

ToolMsg(content, node, callId, name, isError) ==
    [type |-> "tool", content |-> content, nodeId |-> node,
     tool_call_id |-> callId, name |-> name, is_error |-> isError]

\* messages.at(-1)
LastMsg(messages) == messages[Len(messages)]

\* messages with the last element replaced
SetLast(messages, m) == [messages EXCEPT ![Len(messages)] = m]

RECURSIVE CallsSize(_)
CallsSize(calls) ==
    IF calls = <<>> THEN 0
    ELSE 1 + Len(Head(calls).args) + CallsSize(Tail(calls))

MsgSize(m) ==
    1 + Len(m.content) + (IF m.type = "ai" THEN CallsSize(m.tool_calls) ELSE 0)

RECURSIVE Size(_)
Size(messages) ==
    IF messages = <<>> THEN 0 ELSE MsgSize(Head(messages)) + Size(Tail(messages))

\* the model's size limit on a message list (a guard of the stream actions)
InBounds(messages) == Size(messages) <= MaxSize

EntryInBounds(entry) ==
    IF entry = NoEntry THEN TRUE
    ELSE IF entry.history = NoHistory THEN TRUE
    ELSE InBounds(entry.history.values.messages)

(* ------------------- stream event handlers (pure part) ---------------- *)

\* faulty variant: the chunk overwrites the last message, whatever it is
handleChunkOverwriting(messages, chunkData) ==
    IF Len(messages) = 0
    THEN <<AiMsg(chunkData.content, chunkData.node, <<>>)>>
    ELSE SetLast(messages, AiMsg(chunkData.content, chunkData.node, <<>>))

\* handleChunk: the message list after a chunk {node, content}
handleChunk(messages, chunkData) ==
    LET lastMessageNodeId ==
            IF Len(messages) = 0 THEN Undefined ELSE LastMsg(messages).nodeId
        pushed ==
            IF lastMessageNodeId # chunkData.node
            THEN Append(messages, AiMsg("", chunkData.node, <<>>))
            ELSE messages
    IN  IF Len(pushed) > 0 /\ LastMsg(pushed).type = "ai"
        THEN SetLast(pushed,
                 [LastMsg(pushed) EXCEPT !.content = @ \o chunkData.content])
        ELSE IF Len(pushed) > 0
        THEN Append(pushed, AiMsg(chunkData.content, chunkData.node, <<>>))
        ELSE pushed

\* faulty variant: a default that replaces every value
AlwaysEmpty(x) == ""

\* x || '' of the source
OrEmpty(x) == IF x = Null THEN "" ELSE x

\* handleToolChunk: the message list after an ai_tool_chunk {node, id, name, args}
handleToolChunk(messages, toolChunkData) ==
    LET hasLast == Len(messages) > 0
        sameNode == hasLast /\ LastMsg(messages).nodeId = toolChunkData.node
        pushed ==
            IF ~hasLast \/ ~sameNode \/ LastMsg(messages).type # "ai"
            THEN Append(messages, AiMsg("", toolChunkData.node, <<>>))
            ELSE messages
        lastMessage == LastMsg(pushed)
        calls == lastMessage.tool_calls
    IN  IF toolChunkData.id # Null
        THEN SetLast(pushed,
                 [lastMessage EXCEPT !.tool_calls =
                     Append(@, [id |-> toolChunkData.id,
                                name |-> OrEmpty(toolChunkData.name),
                                args |-> OrEmpty(toolChunkData.args)])])
        ELSE IF OrEmpty(toolChunkData.args) # "" /\ Len(calls) > 0
        THEN SetLast(pushed,
                 [lastMessage EXCEPT !.tool_calls =
                     [@ EXCEPT ![Len(calls)].args = @ \o toolChunkData.args]])
        ELSE pushed

\* handleToolResult: the message list after a tool_result
handleToolResult(messages, toolResultData) ==
    Append(messages,
           ToolMsg(OrEmpty(toolResultData.content), toolResultData.node,
                   OrEmpty(toolResultData.tool_call_id),
                   toolResultData.tool_name, toolResultData.is_error))

(* ------------------------------ Thread Cache -------------------------- *)

\* {...entry, ...updates}
Merge(entry, updates) ==
    [f \in DOMAIN entry |-> IF f \in DOMAIN updates THEN updates[f] ELSE entry[f]]

DefaultEntry == [history |-> NoHistory, status |-> "idle", error |-> Null]

\* faulty variant: a write that replaces every entry of the cache
setEveryEntry(store, threadId, entryData) ==
    IF threadId = Null THEN store
    ELSE [t \in DOMAIN store |-> entryData]

\* ThreadStateStore.setEntry
setEntry(store, threadId, entryData) ==
    IF threadId = Null THEN store
    ELSE [store EXCEPT ![threadId] = entryData]

\* an update that is dropped when the thread has no entry
updateExistingEntry(store, threadId, updates) ==
    IF threadId = Null THEN store
    ELSE IF store[threadId] # NoEntry
    THEN [store EXCEPT ![threadId] = Merge(store[threadId], updates)]
    ELSE store

\* ThreadStateStore.updateEntry
updateEntry(store, threadId, updates) ==
    IF threadId = Null THEN store
    ELSE IF store[threadId] # NoEntry
    THEN [store EXCEPT ![threadId] = Merge(store[threadId], updates)]
    ELSE [store EXCEPT ![threadId] = Merge(DefaultEntry, updates)]

(* --------------------------- Session Registry ------------------------- *)

\* sessionStore.addThreadToSession: append unless already present
addThreadToSession(sessions, sessionId, threadId) ==
    IF sessionId \notin DOMAIN sessions \/ ~sessions[sessionId].exists
    THEN sessions
    ELSE IF \E i \in 1..Len(sessions[sessionId].threadIds) :
                sessions[sessionId].threadIds[i] = threadId
    THEN sessions
    ELSE [sessions EXCEPT ![sessionId].threadIds = Append(@, threadId)]

\* sessionStore.addThreadIdWithBackendHistory
addThreadIdWithBackendHistory(known, threadId) == known \cup {threadId}

(* -------------------------- Global Error Slot texts ------------------- *)

HttpError == "HTTP error! Status: 500"

NetworkError == "network error"

OpenFailed == "SSE connection failed! Status: 500"

NoActiveSession == "Cannot start run: No active session selected."

SessionStateMissing(sessionId) ==
    "Cannot start run: Active session state not found for ID " \o sessionId \o "."

\* faulty variant: a dropped frame that leaves no message
NoMessage(eventType) == Null

MissingThreadId(eventType) ==
    "System Error: Event '" \o eventType \o "' missing thread_id."

BackendError(errorData) ==
    "Backend Error (" \o errorData.node \o "): " \o errorData.error

ConnectionError == "Connection Error: " \o OpenFailed

StreamError(errorMsg) == "Stream Error: " \o errorMsg

FinalFetchFailed(threadId) ==
    "Failed to fetch final state for thread " \o threadId \o ": " \o HttpError

(* --------------------------------- frames ----------------------------- *)

InitialMessageLists ==
    {<<>>, <<HumanMsg("a")>>, <<HumanMsg("a"), HumanMsg("b")>>}

RunStartFrames ==
    [type : {"run_start"}, thread_id : ThreadIds \cup {Null},
     data : [thread_id : ThreadIds, initialMessages : InitialMessageLists,
             runConfig : {RunConfig}]]

ChunkFrames ==
    [type : {"chunk"}, thread_id : ThreadIds \cup {Null},
     data : [node : Nodes, content : ChunkContents]]

ToolChunkFrames ==
    [type : {"ai_tool_chunk"}, thread_id : ThreadIds \cup {Null},
     data : [node : Nodes, id : {Null, "c1"}, name : {"f"}, args : {Null, "x"}]]

ToolResultFrames ==
    [type : {"tool_result"}, thread_id : ThreadIds \cup {Null},
     data : [node : Nodes, content : {"r"}, tool_call_id : {"c1"},
             tool_name : {"f"}, is_error : {FALSE}]]

ErrorFrames ==
    [type : {"error"}, thread_id : ThreadIds \cup {Null},
     data : [node : {"n1"}, error : {"boom"}]]

EndFrames ==
    [type : {"end"}, thread_id : ThreadIds \cup {Null},
     data : [checkpoint_id : {"cp1"}]]

UpdateTypes == {"chunk", "ai_tool_chunk", "tool_result"}

Frames ==
    RunStartFrames \cup ChunkFrames \cup ToolChunkFrames \cup ToolResultFrames
        \cup ErrorFrames \cup EndFrames

\* what GET /threads/{id}/latest may answer for a thread
FetchedHistories(threadId) ==
    {[checkpoint_id |-> "cp1", thread_id |-> threadId,
      values |-> [messages |-> ms], runConfig |-> RunConfig] :
        ms \in {<<HumanMsg("a")>>, <<HumanMsg("a"), AiMsg("a", "n1", <<>>)>>}}

(* --------------------------------- state ------------------------------ *)

VARIABLES
    threadCacheStore,            \* threadStore.threadCacheStore
    loadingThreadIds,            \* threadStore.loadingThreadIds (the keys set)
    replaced,                    \* the entry object a stream update has replaced
    uiSessions,                  \* sessionStore.uiSessions (thread list per session)
    activeSessionId,             \* sessionStore.activeSessionId
    threadIdsWithBackendHistory, \* sessionStore: threads the backend has confirmed
    globalError,                 \* activeStore global error
    conn,                        \* per streamRun invocation: request, transport, handle
    fin,                         \* per streamRun invocation: handleEndEvent's loop
    chunkRun,                    \* history variable: the chunks since run_start
    last                         \* history variable: the step taken last

vars ==
    <<threadCacheStore, loadingThreadIds, replaced, uiSessions, activeSessionId, threadIdsWithBackendHistory,
      globalError, conn, fin, chunkRun, last>>

registry == <<uiSessions, activeSessionId, threadIdsWithBackendHistory>>

NewConn ==
    [phase |-> "new", threadIdToSend |-> Null, isTestMode |-> FALSE,
     sessionId |-> Null, aborted |-> FALSE, returned |-> FALSE]

\* faulty variant: a fail-fast return without controller.abort()
UnabortedConn == [NewConn EXCEPT !.phase = "rejected", !.returned = TRUE]

\* the handle of a run that failed its precondition: already aborted
RejectedConn ==
    [NewConn EXCEPT !.phase = "rejected", !.aborted = TRUE, !.returned = TRUE]

NoFinalize ==
    [pc |-> "none", threadId |-> Null, retryCount |-> 0, success |-> FALSE,
     attempts |-> 0, abortedAt |-> 0]

\* chunkRun[t]: since the last run_start of t only chunks of one node were
\* processed (pure), that node, their concatenation, and the length the message
\* list had when run_start had been processed
NotPure == [pure |-> FALSE, node |-> Null, text |-> "", baseLen |-> 0]

\* last: the operation, the run it belongs to, the thread it resolved and the
\* data it came with (a frame's data, the history a fetch answered)
Step(op, c, threadId, data) ==
    [op |-> op, conn |-> c, thread |-> threadId, data |-> data]

NoData == [none |-> TRUE]

Init ==
    /\ last = Step("init", 0, Null, NoData)
    /\ threadCacheStore = [t \in CacheKeys |-> NoEntry]
    /\ loadingThreadIds = {}
    /\ replaced = NoEntry
    /\ uiSessions = [s \in SessionIds |-> [exists |-> TRUE, threadIds |-> <<>>]]
    /\ activeSessionId = "S1"
    /\ threadIdsWithBackendHistory = {}
    /\ globalError = Null
    /\ conn = [c \in Conns |-> NewConn]
    /\ fin = [c \in Conns |-> NoFinalize]
    /\ chunkRun = [t \in CacheKeys |-> NotPure]

\* the message lists of a thread with two prior messages: a human message and
\* the AI reply of a node, within the model's size limit
PriorMessageLists ==
    {messages \in {<<HumanMsg("a"), AiMsg(reply, node, <<>>)>> :
                       reply \in {"", "a"}, node \in Nodes} :
        InBounds(messages)}

\* the application with thread T1 idle, holding two prior messages, confirmed
\* by the backend and in the thread list of the active session
InitContinue ==
    /\ last = Step("init", 0, Null, NoData)
    /\ \E messages \in PriorMessageLists :
           threadCacheStore =
               [t \in CacheKeys |->
                   IF t = "T1"
                   THEN [history |->
                            [checkpoint_id |-> "cp1", thread_id |-> "T1",
                             values |-> [messages |-> messages],
                             runConfig |-> RunConfig],
                         status |-> "idle", error |-> Null]
                   ELSE NoEntry]
    /\ loadingThreadIds = {}
    /\ replaced = NoEntry
    /\ uiSessions =
           [s \in SessionIds |-> [exists |-> TRUE, threadIds |-> <<"T1">>]]
    /\ activeSessionId = "S1"
    /\ threadIdsWithBackendHistory = {"T1"}
    /\ globalError = Null
    /\ conn = [c \in Conns |-> NewConn]
    /\ fin = [c \in Conns |-> NoFinalize]
    /\ chunkRun = [t \in CacheKeys |-> NotPure]

\* the application with any selection of a session: none active, or an active
\* id whose UI state is or is not there
InitSessions ==
    /\ last = Step("init", 0, Null, NoData)
    /\ threadCacheStore = [t \in CacheKeys |-> NoEntry]
    /\ loadingThreadIds = {}
    /\ replaced = NoEntry
    /\ uiSessions \in [SessionIds -> {[exists |-> e, threadIds |-> <<>>] :
                                         e \in BOOLEAN}]
    /\ activeSessionId \in SessionIds \cup {Null}
    /\ threadIdsWithBackendHistory = {}
    /\ globalError = Null
    /\ conn = [c \in Conns |-> NewConn]
    /\ fin = [c \in Conns |-> NoFinalize]
    /\ chunkRun = [t \in CacheKeys |-> NotPure]

(* ------------------------ run_start (non-test mode) ------------------- *)

\* faulty variant: a filter that looks at the type alone
IsNewType(existingMessages, newMsg) ==
    ~\E i \in 1..Len(existingMessages) :
        existingMessages[i].type = newMsg.type

\* an initialMessages element is new when no existing message has its
\* (type, content)
IsNewMessage(existingMessages, newMsg) ==
    ~\E i \in 1..Len(existingMessages) :
        /\ existingMessages[i].type = newMsg.type
        /\ existingMessages[i].content = newMsg.content

\* initialMessages.filter(...)
RECURSIVE FilterNew(_, _)
FilterNew(existingMessages, initialMessages) ==
    IF initialMessages = <<>> THEN <<>>
    ELSE LET rest == FilterNew(existingMessages, Tail(initialMessages))
         IN  IF IsNewMessage(existingMessages, Head(initialMessages))
             THEN <<Head(initialMessages)>> \o rest
             ELSE rest

\* existingEntry?.history?.values?.messages is present
HasHistory(existingEntry) ==
    IF existingEntry = NoEntry THEN FALSE ELSE existingEntry.history # NoHistory

\* updatedMessages of handleRunStartEvent
RunStartMessages(existingEntry, initialMessages) ==
    IF HasHistory(existingEntry)
    THEN existingEntry.history.values.messages
             \o FilterNew(existingEntry.history.values.messages, initialMessages)
    ELSE initialMessages

\* newCacheEntry of handleRunStartEvent
RunStartEntry(existingEntry, startData) ==
    [history |->
        [checkpoint_id |->
            IF HasHistory(existingEntry)
            THEN existingEntry.history.checkpoint_id ELSE "",
         thread_id |-> startData.thread_id,
         values |-> [messages |->
                        RunStartMessages(existingEntry, startData.initialMessages)],
         runConfig |-> startData.runConfig],
     status |-> "streaming",
     error |-> Null]

\* newCacheEntry of the test-mode branch of onmessage
TestRunStartEntry(targetThreadId, eventData) ==
    [history |->
        [checkpoint_id |-> "test-checkpoint",
         thread_id |-> IF targetThreadId # Null THEN targetThreadId ELSE "test-thread",
         values |-> [messages |-> eventData.initialMessages],
         runConfig |-> eventData.runConfig],
     status |-> "streaming",
     error |-> Null]

\* the cache key run_start writes
RunStartKey(c, ev, targetThreadId) ==
    IF conn[c].isTestMode
    THEN IF targetThreadId # Null THEN targetThreadId ELSE "test-thread"
    ELSE ev.data.thread_id

\* the entry run_start writes
RunStartWrites(c, ev, targetThreadId) ==
    IF conn[c].isTestMode
    THEN TestRunStartEntry(targetThreadId, ev.data)
    ELSE RunStartEntry(threadCacheStore[ev.data.thread_id], ev.data)

\* faulty variant: the thread is added to the session for the runs that
\* already had a thread and not for those that asked for a new one
RunStartSessionsOfOldThreads(sessions, currentActiveSessionId, threadIdToSend, targetThreadId) ==
    IF threadIdToSend # Null
    THEN addThreadToSession(sessions, currentActiveSessionId, targetThreadId)
    ELSE sessions

\* the Session Registry calls of handleRunStartEvent
RunStartSessions(sessions, currentActiveSessionId, threadIdToSend, targetThreadId) ==
    IF threadIdToSend = Null
    THEN addThreadToSession(sessions, currentActiveSessionId, targetThreadId)
    ELSE sessions

FreshRun(messages) ==
    [pure |-> TRUE, node |-> Null, text |-> "", baseLen |-> Len(messages)]

\* handleRunStartEvent, and the test-mode run_start branch of onmessage
handleRunStartEvent(c, ev, targetThreadId) ==
    LET key == RunStartKey(c, ev, targetThreadId)
        entry == RunStartWrites(c, ev, targetThreadId)
    IN  /\ InBounds(entry.history.values.messages)
        /\ threadCacheStore' = setEntry(threadCacheStore, key, entry)
        /\ chunkRun' = [chunkRun EXCEPT ![key] = FreshRun(entry.history.values.messages)]
        /\ IF conn[c].isTestMode
           THEN UNCHANGED <<uiSessions, threadIdsWithBackendHistory>>
           ELSE /\ threadIdsWithBackendHistory' =
                       addThreadIdWithBackendHistory(threadIdsWithBackendHistory, key)
                /\ uiSessions' = RunStartSessions(uiSessions, conn[c].sessionId,
                                                  conn[c].threadIdToSend, key)
        /\ UNCHANGED <<activeSessionId, globalError, conn, fin>>

(* ------------------- chunk / ai_tool_chunk / tool_result -------------- *)

\* faulty variant: a guard that does not look at the status
AcceptsAnyStatus(entry) ==
    IF entry = NoEntry THEN FALSE
    ELSE IF entry.error # Null THEN FALSE
    ELSE entry.history # NoHistory

\* the guard of handleStreamUpdateEvent: an entry that is streaming, carries
\* no error and has a history
AcceptsUpdates(entry) ==
    IF entry = NoEntry THEN FALSE
    ELSE IF entry.status # "streaming" \/ entry.error # Null THEN FALSE
    ELSE entry.history # NoHistory

ApplyUpdate(messages, eventType, eventData) ==
    IF eventType = "chunk" THEN handleChunk(messages, eventData)
    ELSE IF eventType = "ai_tool_chunk" THEN handleToolChunk(messages, eventData)
    ELSE handleToolResult(messages, eventData)

\* handleStreamUpdateEvent: the cache after the event
handleStreamUpdateEvent(store, eventType, eventData, targetThreadId) ==
    IF ~AcceptsUpdates(store[targetThreadId]) THEN store
    ELSE LET history == store[targetThreadId].history
             updatedHistory ==
                 [history EXCEPT !.values.messages =
                     ApplyUpdate(history.values.messages, eventType, eventData)]
         IN  updateEntry(store, targetThreadId, [history |-> updatedHistory])

\* history variable: the chunk run of a thread after an accepted update
NextChunkRun(run, eventType, eventData) ==
    IF /\ eventType = "chunk"
       /\ run.pure
       /\ run.node \in {Null, eventData.node}
    THEN [run EXCEPT !.node = eventData.node, !.text = @ \o eventData.content]
    ELSE NotPure

StreamUpdateStep(c, ev, targetThreadId) ==
    LET store == handleStreamUpdateEvent(threadCacheStore, ev.type, ev.data,
                                         targetThreadId)
    IN  /\ EntryInBounds(store[targetThreadId])
        /\ threadCacheStore' = store
        /\ chunkRun' =
               IF AcceptsUpdates(threadCacheStore[targetThreadId])
               THEN [chunkRun EXCEPT ![targetThreadId] =
                        NextChunkRun(@, ev.type, ev.data)]
               ELSE chunkRun
        /\ UNCHANGED <<registry, globalError, conn, fin>>

(* --------------------------------- error ------------------------------ *)

\* faulty variant: an update that sets the status and drops the message
StatusOnlyError(errorMessage) == [status |-> "error"]

\* the update handleErrorEvent applies to the thread's entry
ErrorUpdate(errorMessage) == [status |-> "error", error |-> errorMessage]

\* handleErrorEvent
handleErrorEvent(c, ev, targetThreadId) ==
    /\ globalError' = BackendError(ev.data)
    /\ threadCacheStore' =
           IF targetThreadId # Null
           THEN updateEntry(threadCacheStore, targetThreadId,
                            ErrorUpdate(BackendError(ev.data)))
           ELSE threadCacheStore
    /\ chunkRun' = IF targetThreadId # Null
                   THEN [chunkRun EXCEPT ![targetThreadId] = NotPure]
                   ELSE chunkRun
    /\ UNCHANGED <<registry, conn, fin>>

(* ------------------------- end and the finalize fetch ----------------- *)

\* while (retryCount <= MAX_RETRIES && !success)
LoopContinues(retryCount, success) == retryCount <= MAX_RETRIES /\ ~success

\* if (retryCount <= MAX_RETRIES) in the catch block
MayRetry(retryCount) == retryCount <= MAX_RETRIES

\* faulty variant: an apiFetch that starts without clearGlobalError
apiFetchKeeps(error) == error

\* faulty variant: a catch block that records an AbortError like every error
apiFetchCatchAll(error, isAbortError) == HttpError

\* faulty variant: an error handler that records nothing
handleNoError(error, isAbortError, message) == error

\* faulty variant: an update that leaves the status as it is
NoStatusUpdate == [error |-> Null]

\* apiFetch up to its await: clearGlobalError, then fetch(url, {signal})
apiFetchClears(error) == Null

\* apiFetch's catch block: what the Global Error Slot holds after the fetch
\* has thrown
apiFetchCatch(error, isAbortError) ==
    IF isAbortError THEN error ELSE HttpError

\* handleNonAbortError: what the Global Error Slot holds after it
handleNonAbortError(error, isAbortError, message) ==
    IF isAbortError THEN error ELSE message

\* the update handleEndEvent applies before it fetches
IdleUpdate == [status |-> "idle"]

\* the update handleEndEvent applies when the fetch has answered
FinalUpdate(finalHistoryEntry) ==
    [history |-> finalHistoryEntry, status |-> "idle", error |-> Null]

\* getLatestHistory is called: one more attempt; with a signal that is already
\* aborted the fetch rejects at once and the catch block breaks out of the loop
StartAttempt(f, aborted) ==
    IF aborted
    THEN [f EXCEPT !.attempts = @ + 1, !.retryCount = @ + 1, !.pc = "done"]
    ELSE [f EXCEPT !.attempts = @ + 1, !.pc = "fetching"]

\* handleEndEvent up to its first await
handleEndEvent(c, ev, targetThreadId) ==
    /\ fin[c].pc = "none"
    /\ threadCacheStore' =
           updateEntry(threadCacheStore, targetThreadId, IdleUpdate)
    /\ globalError' = apiFetchClears(globalError)
    /\ fin' = [fin EXCEPT ![c] =
                  StartAttempt([NoFinalize EXCEPT !.threadId = targetThreadId],
                               conn[c].aborted)]
    /\ chunkRun' = [chunkRun EXCEPT ![targetThreadId] = NotPure]
    /\ UNCHANGED <<registry, conn>>

\* the fetch resolves: the try block of handleEndEvent completes
FetchSucceeds(c, finalHistoryEntry) ==
    /\ last' = Step("fetch_ok", c, fin[c].threadId, finalHistoryEntry)
    /\ replaced' = NoEntry
    /\ UNCHANGED loadingThreadIds
    /\ fin[c].pc = "fetching"
    /\ ~conn[c].aborted
    /\ threadCacheStore' =
           updateEntry(threadCacheStore, fin[c].threadId,
                       FinalUpdate(finalHistoryEntry))
    /\ fin' = [fin EXCEPT ![c].success = TRUE, ![c].pc = "done"]
    /\ chunkRun' = [chunkRun EXCEPT ![fin[c].threadId] = NotPure]
    /\ UNCHANGED <<registry, globalError, conn>>

\* the fetch fails with an error that is no AbortError: the catch blocks of
\* apiFetch and handleEndEvent
FetchFails(c) ==
    /\ last' = Step("fetch_fail", c, fin[c].threadId, NoData)
    /\ replaced' = NoEntry
    /\ UNCHANGED loadingThreadIds
    /\ fin[c].pc = "fetching"
    /\ ~conn[c].aborted
    /\ LET retryCount == fin[c].retryCount + 1
       IN  IF MayRetry(retryCount)
           THEN /\ fin' = [fin EXCEPT ![c].retryCount = retryCount,
                                      ![c].pc = "backoff"]
                /\ globalError' = apiFetchCatch(globalError, FALSE)
           ELSE /\ fin' = [fin EXCEPT ![c].retryCount = retryCount,
                                      ![c].pc = "done"]
                /\ globalError' =
                       handleNonAbortError(apiFetchCatch(globalError, FALSE), FALSE,
                                           FinalFetchFailed(fin[c].threadId))
    /\ UNCHANGED <<registry, threadCacheStore, conn, chunkRun>>

\* the pending fetch rejects with AbortError: break
FetchAborted(c) ==
    /\ last' = Step("fetch_abort", c, fin[c].threadId, NoData)
    /\ replaced' = NoEntry
    /\ UNCHANGED loadingThreadIds
    /\ fin[c].pc = "fetching"
    /\ conn[c].aborted
    /\ fin' = [fin EXCEPT ![c].retryCount = @ + 1, ![c].pc = "done"]
    /\ globalError' = apiFetchCatch(globalError, TRUE)
    /\ UNCHANGED <<registry, threadCacheStore, conn, chunkRun>>

\* the 1-second timer fires: the loop condition is evaluated again
BackoffElapsed(c) ==
    /\ last' = Step("backoff", c, fin[c].threadId, NoData)
    /\ replaced' = NoEntry
    /\ UNCHANGED loadingThreadIds
    /\ fin[c].pc = "backoff"
    /\ IF LoopContinues(fin[c].retryCount, fin[c].success)
       THEN /\ fin' = [fin EXCEPT ![c] = StartAttempt(@, conn[c].aborted)]
            /\ globalError' = apiFetchClears(globalError)
       ELSE /\ fin' = [fin EXCEPT ![c].pc = "done"]
            /\ UNCHANGED globalError
    /\ UNCHANGED <<registry, threadCacheStore, conn, chunkRun>>

(* -------------------------------- onmessage --------------------------- *)

\* eventThreadId || threadIdToSend
TargetThreadId(c, ev) ==
    IF ev.thread_id # Null THEN ev.thread_id ELSE conn[c].threadIdToSend

NoToolSeq == [open |-> FALSE, id |-> Null, args |-> "", calls |-> 0]

\* history variable: the sequence of ai_tool_chunk frames that ev, a frame
\* for an entry that accepts updates, starts (it carries an id) or continues
\* (it carries only args and follows, with no step in between, a frame of the
\* sequence for the same thread and node): the id, the args so far, and the
\* number of tool calls the AI message of the first frame had, plus one
ToolSeq(c, ev) ==
    LET targetThreadId == TargetThreadId(c, ev)
        messages ==
            IF targetThreadId = Null THEN <<>>
            ELSE IF HasHistory(threadCacheStore[targetThreadId])
            THEN threadCacheStore[targetThreadId].history.values.messages
            ELSE <<>>
        continued ==
            IF Len(messages) = 0 THEN 0
            ELSE IF LastMsg(messages).type = "ai"
                    /\ LastMsg(messages).nodeId = ev.data.node
            THEN Len(LastMsg(messages).tool_calls)
            ELSE 0
        accepted ==
            IF targetThreadId = Null THEN FALSE
            ELSE AcceptsUpdates(threadCacheStore[targetThreadId])
    IN  IF ~accepted THEN NoToolSeq
        ELSE IF ev.data.id # Null
        THEN [open |-> TRUE, id |-> ev.data.id,
              args |-> IF ev.data.args = Null THEN "" ELSE ev.data.args,
              calls |-> continued + 1]
        ELSE IF last.op # "ai_tool_chunk" \/ ev.data.args = Null
        THEN NoToolSeq
        ELSE IF /\ last.conn = c
                /\ last.thread = targetThreadId
                /\ last.data.node = ev.data.node
                /\ last.data.seq.open
        THEN [last.data.seq EXCEPT !.args = @ \o ev.data.args]
        ELSE NoToolSeq

\* history variable: the data of a frame, for an ai_tool_chunk with its
\* sequence
StepData(c, ev) ==
    IF ev.type = "ai_tool_chunk"
    THEN [node |-> ev.data.node, id |-> ev.data.id, name |-> ev.data.name,
          args |-> ev.data.args, seq |-> ToolSeq(c, ev)]
    ELSE ev.data

\* The entry object that handleStreamUpdateEvent replaces, read after the
\* update through a reference taken before it: the update works on a copy of
\* the history, of its values and of the messages array, and the copied array
\* holds the message objects of the old one, which handleChunk and
\* handleToolChunk change in place.  NoEntry when the frame replaces nothing.
ReplacedEntry(ev, targetThreadId) ==
    IF targetThreadId = Null \/ ev.type \notin UpdateTypes THEN NoEntry
    ELSE IF ~AcceptsUpdates(threadCacheStore[targetThreadId]) THEN NoEntry
    ELSE LET entry == threadCacheStore[targetThreadId]
             messages == entry.history.values.messages
             updated == ApplyUpdate(messages, ev.type, ev.data)
         IN  [entry EXCEPT !.history.values.messages =
                 SubSeq(updated, 1, Len(messages))]

\* streamRun's onmessage callback
onmessage(c, ev) ==
    /\ conn[c].phase = "open"
    /\ last' = Step(ev.type, c, TargetThreadId(c, ev), StepData(c, ev))
    /\ replaced' = ReplacedEntry(ev, TargetThreadId(c, ev))
    /\ UNCHANGED loadingThreadIds
    /\ LET targetThreadId == TargetThreadId(c, ev)
       IN  IF targetThreadId = Null /\ ev.type # "error"
           THEN /\ globalError' = MissingThreadId(ev.type)
                /\ UNCHANGED <<registry, threadCacheStore, conn, fin, chunkRun>>
           ELSE IF ev.type = "run_start"
           THEN handleRunStartEvent(c, ev, targetThreadId)
           ELSE IF ev.type \in UpdateTypes
           THEN StreamUpdateStep(c, ev, targetThreadId)
           ELSE IF ev.type = "error"
           THEN handleErrorEvent(c, ev, targetThreadId)
           ELSE handleEndEvent(c, ev, targetThreadId)

(* --------------------------- streamRun, transport --------------------- *)

\* streamRun up to the call of fetchEventSource
streamRun(c, threadId, isTestMode) ==
    /\ last' = Step("streamRun", c, threadId, NoData)
    /\ replaced' = NoEntry
    /\ UNCHANGED loadingThreadIds
    /\ conn[c].phase = "new"
    /\ IF ~isTestMode /\ activeSessionId = Null
       THEN /\ globalError' = NoActiveSession
            /\ conn' = [conn EXCEPT ![c] = RejectedConn]
       ELSE IF ~isTestMode /\ ~uiSessions[activeSessionId].exists
       THEN /\ globalError' = SessionStateMissing(activeSessionId)
            /\ conn' = [conn EXCEPT ![c] = RejectedConn]
       ELSE /\ globalError' = Null
            /\ conn' = [conn EXCEPT ![c] =
                           [NewConn EXCEPT !.phase = "connecting",
                                           !.threadIdToSend = threadId,
                                           !.isTestMode = isTestMode,
                                           !.sessionId = IF isTestMode THEN Null
                                                         ELSE activeSessionId]]
    /\ UNCHANGED <<registry, threadCacheStore, fin, chunkRun>>

\* streamRun's onerror callback: what the Global Error Slot, holding error,
\* holds after it
onerror(c, error, errorMsg) ==
    IF conn[c].aborted THEN error ELSE StreamError(errorMsg)

\* the response arrives: streamRun's onopen callback; for a response that is
\* not ok it records a connection error and throws, the transport calls
\* onerror and schedules a reconnect
onopen(c, ok) ==
    /\ last' = Step("onopen", c, Null, NoData)
    /\ replaced' = NoEntry
    /\ UNCHANGED loadingThreadIds
    /\ conn[c].phase = "connecting"
    /\ IF ok
       THEN /\ conn' = [conn EXCEPT ![c].phase = "open"]
            /\ UNCHANGED globalError
       ELSE /\ conn' = [conn EXCEPT ![c].phase = "retrying"]
            /\ globalError' = onerror(c, ConnectionError, OpenFailed)
    /\ UNCHANGED <<registry, threadCacheStore, fin, chunkRun>>

\* the request or the open stream fails: the transport calls onerror, which
\* does not throw, and schedules a reconnect
TransportFails(c) ==
    /\ last' = Step("transport_fail", c, Null, NoData)
    /\ replaced' = NoEntry
    /\ UNCHANGED loadingThreadIds
    /\ conn[c].phase \in {"connecting", "open"}
    /\ conn' = [conn EXCEPT ![c].phase = "retrying"]
    /\ globalError' = onerror(c, globalError, NetworkError)
    /\ UNCHANGED <<registry, threadCacheStore, fin, chunkRun>>

\* the transport's retry timer fires: the request is sent again
Reconnect(c) ==
    /\ last' = Step("reconnect", c, Null, NoData)
    /\ replaced' = NoEntry
    /\ UNCHANGED loadingThreadIds
    /\ conn[c].phase = "retrying"
    /\ conn' = [conn EXCEPT ![c].phase = "connecting"]
    /\ UNCHANGED <<registry, threadCacheStore, globalError, fin, chunkRun>>

\* the server closes the stream: onclose, the transport's promise resolves and
\* streamRun returns the controller to its caller
onclose(c) ==
    /\ last' = Step("onclose", c, Null, NoData)
    /\ replaced' = NoEntry
    /\ UNCHANGED loadingThreadIds
    /\ conn[c].phase = "open"
    /\ conn' = [conn EXCEPT ![c].phase = "closed", ![c].returned = TRUE]
    /\ UNCHANGED <<registry, threadCacheStore, globalError, fin, chunkRun>>

\* a run that is over (its stream closed or never opened, no finalize fetch
\* pending) can no longer act: its slot is free for the next call of streamRun
RunIsOver(c) ==
    /\ last' = Step("over", c, Null, NoData)
    /\ replaced' = NoEntry
    /\ UNCHANGED loadingThreadIds
    /\ conn[c].phase \in {"closed", "rejected"}
    /\ fin[c].pc \in {"none", "done"}
    /\ conn' = [conn EXCEPT ![c] = NewConn]
    /\ fin' = [fin EXCEPT ![c] = NoFinalize]
    /\ UNCHANGED <<registry, threadCacheStore, globalError, chunkRun>>

\* a transport double (a test harness in place of fetchEventSource) resolves
\* its promise while it still holds frames to deliver: streamRun returns the
\* controller to its caller
HarnessSettles(c) ==
    /\ last' = Step("settle", c, Null, NoData)
    /\ replaced' = NoEntry
    /\ UNCHANGED loadingThreadIds
    /\ conn[c].phase \in {"connecting", "open"}
    /\ ~conn[c].returned
    /\ conn' = [conn EXCEPT ![c].returned = TRUE]
    /\ UNCHANGED <<registry, threadCacheStore, globalError, fin, chunkRun>>

\* the caller aborts the controller it holds (handleStopStream)
abort(c) ==
    /\ last' = Step("abort", c, Null, NoData)
    /\ replaced' = NoEntry
    /\ UNCHANGED loadingThreadIds
    /\ conn[c].returned
    /\ ~conn[c].aborted
    /\ conn' = [conn EXCEPT ![c].aborted = TRUE]
    /\ fin' = [fin EXCEPT ![c].abortedAt =
                  IF fin[c].pc \in {"fetching", "backoff"} THEN fin[c].attempts ELSE @]
    /\ UNCHANGED <<registry, threadCacheStore, globalError, chunkRun>>

(* ------------------ Thread Cache calls of the application ------------- *)

\* ThreadStateStore.setError
setError(threadId, error) ==
    /\ last' = Step("setError", 0, threadId, NoData)
    /\ replaced' = NoEntry
    /\ UNCHANGED loadingThreadIds
    /\ threadCacheStore' =
           updateEntry(threadCacheStore, threadId,
                       [status |-> "error", error |-> error])
    /\ chunkRun' = [chunkRun EXCEPT ![threadId] = NotPure]
    /\ UNCHANGED <<registry, globalError, conn, fin>>

\* ThreadStateStore.clearError
clearError(threadId) ==
    /\ last' = Step("clearError", 0, threadId, NoData)
    /\ replaced' = NoEntry
    /\ UNCHANGED loadingThreadIds
    /\ threadCacheStore' =
           updateEntry(threadCacheStore, threadId, [error |-> Null])
    /\ chunkRun' = [chunkRun EXCEPT ![threadId] = NotPure]
    /\ UNCHANGED <<registry, globalError, conn, fin>>

\* ThreadStateStore.isLoading
isLoading(threadId) == threadId \in loadingThreadIds

\* ThreadStateStore.setLoading
setLoading(threadId, loading) ==
    /\ last' = Step("setLoading", 0, threadId, NoData)
    /\ replaced' = NoEntry
    /\ loadingThreadIds' =
           IF loading THEN loadingThreadIds \cup {threadId}
           ELSE loadingThreadIds \ {threadId}
    /\ UNCHANGED <<threadCacheStore, chunkRun>>
    /\ UNCHANGED <<registry, globalError, conn, fin>>

\* ThreadStateStore.removeEntry; the step records the value it returns
removeEntry(threadId) ==
    /\ last' = Step("removeEntry", 0, threadId,
                    [returned |-> threadCacheStore[threadId] # NoEntry])
    /\ replaced' = NoEntry
    /\ IF threadCacheStore[threadId] = NoEntry
       THEN UNCHANGED <<threadCacheStore, loadingThreadIds, chunkRun>>
       ELSE /\ threadCacheStore' =
                   [threadCacheStore EXCEPT ![threadId] = NoEntry]
            /\ loadingThreadIds' = loadingThreadIds \ {threadId}
            /\ chunkRun' = [chunkRun EXCEPT ![threadId] = NotPure]
    /\ UNCHANGED <<registry, globalError, conn, fin>>

\* ThreadStateStore.clearAllThreads
clearAllThreads ==
    /\ last' = Step("clearAllThreads", 0, Null, NoData)
    /\ replaced' = NoEntry
    /\ loadingThreadIds' = {}
    /\ threadCacheStore' = [t \in CacheKeys |-> NoEntry]
    /\ chunkRun' = [t \in CacheKeys |-> NotPure]
    /\ UNCHANGED <<registry, globalError, conn, fin>>

(* ----------------------------- specifications ------------------------ *)

\* streamRun is called, the stream opens, the server closes it
RunSteps(conns, threadIds, modes) ==
    \/ \E c \in conns, threadId \in threadIds, isTestMode \in modes :
           streamRun(c, threadId, isTestMode)
    \/ \E c \in conns : onopen(c, TRUE)
    \/ \E c \in conns : onclose(c)

\* the server's frames arrive
FrameSteps(conns, frames) ==
    \E c \in conns, ev \in frames : onmessage(c, ev)

\* the finalize fetch of handleEndEvent settles, its backoff timer fires
FinalizeSteps(conns) ==
    \/ \E c \in conns : \E h \in FetchedHistories(fin[c].threadId) :
           FetchSucceeds(c, h)
    \/ \E c \in conns : FetchFails(c)
    \/ \E c \in conns : BackoffElapsed(c)

\* the caller aborts a run, a pending finalize fetch rejects with AbortError
AbortSteps(conns) ==
    \/ \E c \in conns : abort(c)
    \/ \E c \in conns : FetchAborted(c)

\* the connection fails to open or breaks, the transport reconnects
FailureSteps(conns) ==
    \/ \E c \in conns : onopen(c, FALSE)
    \/ \E c \in conns : TransportFails(c)
    \/ \E c \in conns : Reconnect(c)

\* the frames that name only threads of T
FramesOn(T) ==
    {ev \in Frames :
        /\ ev.thread_id \in T \cup {Null}
        /\ ev.type = "run_start" => ev.data.thread_id \in T}

\* One run after the other on thread T1, every kind of frame with all its
\* contents; the finalize fetch of an end stays pending.
NextContent ==
    \/ RunSteps({1}, {"T1"}, {FALSE})
    \/ FrameSteps({1}, FramesOn({"T1"}))
    \/ \E c \in {1} : RunIsOver(c)

SpecContent == Init /\ [][NextContent]_vars

\* run_start with every initialMessages and the chunks of node n1
MergeFrames ==
    {ev \in FramesOn({"T1"}) :
        /\ ev.type \in {"run_start", "chunk"}
        /\ ev.type = "chunk" => ev.data.node = "n1"}

\* One run after the other on thread T1, in test mode or not: what run_start
\* makes of the messages the cache holds.
NextMerge ==
    \/ RunSteps({1}, {Null, "T1"}, {FALSE, TRUE})
    \/ FrameSteps({1}, MergeFrames)
    \/ \E c \in {1} : RunIsOver(c)

SpecMerge == Init /\ [][NextMerge]_vars

\* The same runs, started with or without a usable session.
SpecSessions == InitSessions /\ [][NextMerge]_vars

\* the ai_tool_chunk frames with two call ids and two args fragments, and
\* the frames that come before and between their sequences
ToolFrames ==
    [type : {"ai_tool_chunk"}, thread_id : {"T1"},
     data : [node : Nodes, id : {Null, "c1", "c2"}, name : {"f"},
             args : {Null, "x", "y"}]]
        \cup {ev \in FramesOn({"T1"}) :
                 /\ ev.thread_id = "T1"
                 /\ ev.type \in {"run_start", "chunk", "tool_result"}
                 /\ ev.type = "run_start" => ev.data.initialMessages = <<>>
                 /\ ev.type = "chunk" => ev.data.content = "a"}

\* One run after the other on thread T1 whose frames build tool calls.
NextTools ==
    \/ RunSteps({1}, {"T1"}, {FALSE})
    \/ FrameSteps({1}, ToolFrames)
    \/ \E c \in {1} : RunIsOver(c)

SpecTools == Init /\ [][NextTools]_vars

\* the frames with the least content: node n1, text "a", one tool call
PlainFrames ==
    {ev \in FramesOn({"T1"}) :
        /\ ev.type = "run_start" => Len(ev.data.initialMessages) <= 1
        /\ ev.type \in UpdateTypes => ev.data.node = "n1"
        /\ ev.type = "chunk" => ev.data.content = "a"
        /\ ev.type = "ai_tool_chunk" => ev.data.id # Null /\ ev.data.args # Null}

\* One run at a time on thread T1 with its whole life: the finalize fetch and
\* its retries, aborts by the caller, failures of the connection.
Next ==
    \/ RunSteps({1}, {Null, "T1"}, {FALSE})
    \/ FrameSteps({1}, PlainFrames)
    \/ FinalizeSteps({1})
    \/ AbortSteps({1})
    \/ FailureSteps({1})

Spec == Init /\ [][Next]_vars

\* The same run when every step that can be taken is taken sooner or later:
\* the server's frames and the close of the stream arrive, fetches settle,
\* timers fire, and the caller uses the controller it holds.
SpecLive == Init /\ [][Next]_vars /\ WF_vars(Next)

\* the application sets and clears a thread's error, evicts a thread, empties
\* the cache
StoreSteps(threadIds) ==
    \/ \E threadId \in threadIds : setError(threadId, "failed")
    \/ \E threadId \in threadIds : clearError(threadId)
    \/ \E threadId \in threadIds : removeEntry(threadId)
    \/ clearAllThreads

\* One run at a time on thread T1, new or not, with its finalize fetch, and
\* the application's calls of the Thread Cache at any moment of it.
NextStore ==
    \/ RunSteps({1}, {Null, "T1"}, {FALSE})
    \/ FrameSteps({1}, PlainFrames)
    \/ FinalizeSteps({1})
    \/ StoreSteps({"T1"})

SpecStore == Init /\ [][NextStore]_vars

\* the application marks a thread as loading or as no longer loading
LoadingSteps(threadIds) ==
    \E threadId \in threadIds, loading \in BOOLEAN : setLoading(threadId, loading)

\* The Thread Cache under the application's calls, among them the loading
\* flags, while runs on thread T1 start and stream.
NextCache ==
    \/ RunSteps({1}, {"T1"}, {FALSE})
    \/ FrameSteps({1}, MergeFrames)
    \/ StoreSteps({"T1", "T2"})
    \/ LoadingSteps({"T1", "T2"})

SpecCache == Init /\ [][NextCache]_vars

\* the frames of a run on threadId: run_start with at most one initial
\* message, chunks "a" of node n1, error, end
FramesOfRun(threadId) ==
    {ev \in FramesOn({threadId}) :
        /\ ev.type \in {"run_start", "chunk", "error", "end"}
        /\ ev.type = "run_start" => Len(ev.data.initialMessages) <= 1
        /\ ev.type = "chunk" => ev.data.node = "n1" /\ ev.data.content = "a"}

\* Two runs in flight at the same time: a session run on thread T1 and a
\* session run or a test run on thread T2, each with a finalize fetch that
\* succeeds.
NextTwoRuns ==
    \/ RunSteps({1}, {"T1"}, {FALSE})
    \/ RunSteps({2}, {"T2"}, {FALSE, TRUE})
    \/ FrameSteps({1}, FramesOfRun("T1"))
    \/ FrameSteps({2}, FramesOfRun("T2"))
    \/ \E c \in {1, 2} : \E h \in FetchedHistories(fin[c].threadId) :
           FetchSucceeds(c, h)

SpecTwoRuns == Init /\ [][NextTwoRuns]_vars

\* what the user may type
UserInputs == {"a", "b"}

\* the frames of a run that continues T1: run_start whose initialMessages
\* carry the new human message, chunks, tool call chunks, end
ContinueFrames ==
    [type : {"run_start"}, thread_id : {Null, "T1"},
     data : [thread_id : {"T1"},
             initialMessages : {<<HumanMsg(userInput)>> : userInput \in UserInputs},
             runConfig : {RunConfig}]]
        \cup {ev \in FramesOn({"T1"}) :
                 ev.type \in {"chunk", "ai_tool_chunk", "end"}}

\* One run after the other that continues thread T1, each with its finalize
\* fetch.
NextContinue ==
    \/ RunSteps({1}, {"T1"}, {FALSE})
    \/ FrameSteps({1}, ContinueFrames)
    \/ FinalizeSteps({1})
    \/ \E c \in {1} : RunIsOver(c)

SpecContinue == InitContinue /\ [][NextContinue]_vars

\* Two runs on thread T1 that overlap: the user sends the next message while
\* the finalize fetch of the run before is pending or backing off.
NextOverlap ==
    \/ RunSteps({1, 2}, {"T1"}, {FALSE})
    \/ FrameSteps({1, 2}, FramesOfRun("T1"))
    \/ FinalizeSteps({1, 2})

SpecOverlap == Init /\ [][NextOverlap]_vars

\* the frames of a backend that names thread T1 or T2, or none, on the frame
\* and T1 or T2 in the data of run_start: run_start without messages, chunks
\* "a" of node n1
KeyFrames ==
    {ev \in Frames :
        /\ ev.type \in {"run_start", "chunk"}
        /\ ev.type = "run_start" => ev.data.initialMessages = <<>>
        /\ ev.type = "chunk" => ev.data.node = "n1" /\ ev.data.content = "a"}

\* One run after the other on thread T1, in test mode or not, whose frames
\* name any thread.
NextKeys ==
    \/ RunSteps({1}, {"T1"}, {FALSE, TRUE})
    \/ FrameSteps({1}, KeyFrames)
    \/ \E c \in {1} : RunIsOver(c)

SpecKeys == Init /\ [][NextKeys]_vars

\* The same with a transport double that hands the controller to the caller
\* while frames are still in flight.
NextHarness ==
    \/ Next
    \/ \E c \in {1} : HarnessSettles(c)

SpecHarness == Init /\ [][NextHarness]_vars
(* -------------------------------- properties -------------------------- *)

\* the messages an entry holds
MessagesOf(entry) ==
    IF HasHistory(entry) THEN entry.history.values.messages ELSE <<>>

\* how often m is an element of messages
Count(messages, m) ==
    Cardinality({i \in 1..Len(messages) : messages[i] = m})

\* C1: when, after a thread's run_start, only chunk frames of one node have
\* been processed for it, the thread's message list holds exactly one AI
\* message for them, one more message than after run_start, whose content is
\* the chunks' contents concatenated in the order of arrival.
C1_ChunksMakeOneAiMessage ==
    \A t \in CacheKeys :
        (chunkRun[t].pure /\ chunkRun[t].node # Null) =>
            LET messages == MessagesOf(threadCacheStore[t])
            IN  /\ Len(messages) = chunkRun[t].baseLen + 1
                /\ LastMsg(messages) =
                       AiMsg(chunkRun[t].text, chunkRun[t].node, <<>>)

\* an entry whose updates are dropped: none, not streaming, or with an error
DropsUpdates(entry) ==
    IF entry = NoEntry THEN TRUE
    ELSE entry.status # "streaming" \/ entry.error # Null

\* C2: a chunk, ai_tool_chunk or tool_result frame for a thread whose entry
\* does not exist, is not streaming or carries an error leaves the whole
\* Thread Cache as it was.
C2_DroppedUpdateLeavesCache ==
    [][IF last'.op \in UpdateTypes /\ last'.thread # Null
       THEN DropsUpdates(threadCacheStore[last'.thread])
                => threadCacheStore' = threadCacheStore
       ELSE TRUE]_vars

\* C2's case: a tool_result frame has arrived for a thread whose entry is in
\* error status and holds messages
C2_Witness ==
    /\ last.op = "tool_result"
    /\ last.thread = "T1"
    /\ threadCacheStore["T1"] # NoEntry
    /\ threadCacheStore["T1"].status = "error"
    /\ Len(MessagesOf(threadCacheStore["T1"])) > 0

\* the run of the last step asked for a new thread outside test mode
NewThreadRun ==
    /\ last.conn \in Conns
    /\ ~conn[last.conn].isTestMode
    /\ conn[last.conn].threadIdToSend = Null

\* C3: a run outside test mode that was started without a thread id has
\* processed run_start for thread T, for the first time or again: the thread
\* list of the run's session holds T exactly once, T is in the
\* backend-history set and T's entry is streaming.
C3_NewThreadIsRegisteredOnce ==
    IF last.op = "run_start" /\ last.thread # Null
    THEN NewThreadRun =>
             LET T == last.data.thread_id
             IN  /\ Count(uiSessions[conn[last.conn].sessionId].threadIds, T) = 1
                 /\ T \in threadIdsWithBackendHistory
                 /\ threadCacheStore[T] # NoEntry
                 /\ threadCacheStore[T].status = "streaming"
    ELSE TRUE

\* C3's case: run_start has been processed again, after a chunk of the run
C3_Witness ==
    /\ last.op = "run_start"
    /\ last.thread = "T1"
    /\ NewThreadRun
    /\ \E i \in 1..Len(MessagesOf(threadCacheStore["T1"])) :
           MessagesOf(threadCacheStore["T1"])[i].type = "ai"
    /\ uiSessions["S1"].threadIds = <<"T1">>

\* new is old followed by the elements of initialMessages that match no
\* element of old in (type, content), and holds no element of old more often
\* than old does
MergedWithoutDuplicates(old, initialMessages, new) ==
    LET unmatched(m) ==
            \A i \in 1..Len(old) :
                ~(old[i].type = m.type /\ old[i].content = m.content)
    IN  /\ new = old \o SelectSeq(initialMessages, unmatched)
        /\ \A i \in 1..Len(old) : Count(new, old[i]) = Count(old, old[i])

\* C4 as stated: whenever run_start is processed for a thread whose entry
\* holds messages, the new list is the old one followed by the unmatched
\* initialMessages.
C4_RunStartMerges ==
    [][IF last'.op = "run_start" /\ last'.thread # Null
       THEN LET old == MessagesOf(threadCacheStore[last'.thread])
            IN  Len(old) > 0 =>
                    MergedWithoutDuplicates(
                        old, last'.data.initialMessages,
                        MessagesOf(threadCacheStore'[last'.thread]))
       ELSE TRUE]_vars

\* C4 amended: outside test mode, whenever run_start is processed for a
\* thread whose entry holds messages, the new list is the old one in its
\* order followed by the initialMessages that match no old message in (type,
\* content), in their order, and no old message appears more often than
\* before.
C4_RunStartMergesOutsideTestMode ==
    [][IF last'.op = "run_start" /\ last'.thread # Null
       THEN LET T == last'.data.thread_id
                old == MessagesOf(threadCacheStore[T])
            IN  (~conn[last'.conn].isTestMode /\ Len(old) > 0) =>
                    MergedWithoutDuplicates(
                        old, last'.data.initialMessages,
                        MessagesOf(threadCacheStore'[T]))
       ELSE TRUE]_vars

\* C4's case: outside test mode run_start with the initialMessages [human a]
\* has been processed for a list that held human a and an AI message
C4_Witness ==
    /\ last.op = "run_start"
    /\ last.thread = "T1"
    /\ ~conn[last.conn].isTestMode
    /\ last.data.initialMessages = <<HumanMsg("a")>>
    /\ MessagesOf(threadCacheStore["T1"]) =
           <<HumanMsg("a"), AiMsg("a", "n1", <<>>)>>

\* the status of an entry
StatusOf(entry) == IF entry = NoEntry THEN "none" ELSE entry.status

\* the steps of the finalize procedure after its first fetch has been sent
FinalizeOps == {"fetch_ok", "fetch_fail", "fetch_abort", "backoff"}

\* the frames onmessage dispatches
FrameOps == UpdateTypes \cup {"run_start", "error", "end"}

\* C5: when end has been processed for a thread, its entry is idle while the
\* finalize fetch is still pending, and no outcome of the fetch (success,
\* failure, abort, a retry) takes an idle entry out of idle.
C5_EndSetsIdleAtOnce ==
    [][IF last'.op = "end" /\ last'.thread # Null
       THEN /\ StatusOf(threadCacheStore'[last'.thread]) = "idle"
            /\ fin'[last'.conn].pc = "fetching"
       ELSE IF last'.op \in FinalizeOps
       THEN StatusOf(threadCacheStore[last'.thread]) = "idle"
                => StatusOf(threadCacheStore'[last'.thread]) = "idle"
       ELSE TRUE]_vars

\* C5's case: the finalize fetch of an end has failed for good and the entry
\* is idle
C5_Witness ==
    /\ last.op = "fetch_fail"
    /\ fin[1].pc = "done"
    /\ StatusOf(threadCacheStore["T1"]) = "idle"

\* C6: the finalize fetch is attempted at most 3 times and never again after
\* an attempt has succeeded; when the third attempt succeeds after two
\* failures that were no aborts, the entry holds the fetched history, is idle
\* and has no error, and the Global Error Slot, which nothing else has written
\* since the attempt began, is empty.
C6_ThirdAttemptSucceeds ==
    [][/\ \A c \in Conns :
             /\ fin'[c].attempts <= 3
             /\ fin[c].success => fin'[c].attempts = fin[c].attempts
       /\ IF last'.op = "fetch_ok"
          THEN fin'[last'.conn].retryCount = 2 =>
                   /\ threadCacheStore'[last'.thread] =
                          [history |-> last'.data, status |-> "idle",
                           error |-> Null]
                   /\ (last.op = "backoff" /\ last.conn = last'.conn)
                          => globalError' = Null
          ELSE TRUE]_vars

\* C6's case: the third attempt has succeeded
C6_Witness ==
    /\ last.op = "fetch_ok"
    /\ fin[1].retryCount = 2
    /\ fin[1].attempts = 3
    /\ fin[1].success
    /\ threadCacheStore["T1"].history = last.data
    /\ globalError = Null

\* C7: when the third attempt of the finalize fetch fails like the two before
\* it, none by an abort, the Global Error Slot holds the message of that
\* failure, and the Thread Cache is as it was: the entry is not set to error
\* and keeps its status and its local history.
C7_ThreeFailuresAreReported ==
    [][IF last'.op = "fetch_fail"
       THEN fin'[last'.conn].retryCount = 3 =>
                /\ globalError' # Null
                /\ globalError' = FinalFetchFailed(last'.thread)
                /\ threadCacheStore' = threadCacheStore
       ELSE TRUE]_vars

\* C7's case: three attempts have failed, the entry is idle and holds the
\* messages of the stream
C7_Witness ==
    /\ last.op = "fetch_fail"
    /\ fin[1].retryCount = 3
    /\ fin[1].attempts = 3
    /\ StatusOf(threadCacheStore["T1"]) = "idle"
    /\ Len(MessagesOf(threadCacheStore["T1"])) > 0
    /\ globalError = FinalFetchFailed("T1")

\* C8: once a run has been aborted, no frame that arrives on its stream
\* changes the Thread Cache or the Session Registry.
C8_NoFrameActsAfterAbort ==
    [][IF last'.op \in FrameOps
       THEN conn[last'.conn].aborted =>
                /\ threadCacheStore' = threadCacheStore
                /\ registry' = registry
       ELSE TRUE]_vars

\* C9: what an abort causes (the abort itself, the pending finalize fetch
\* rejecting, the attempt after a backoff rejecting, the transport reporting
\* the broken stream) writes no message to the Global Error Slot and sets no
\* thread's status to error.
C9_AbortIsNoError ==
    [][IF \/ last'.op \in {"abort", "fetch_abort"}
          \/ (last'.op \in {"transport_fail", "backoff"}
                 /\ conn[last'.conn].aborted)
       THEN /\ globalError' \in {Null, globalError}
            /\ \A t \in CacheKeys :
                   StatusOf(threadCacheStore'[t]) = "error"
                       => StatusOf(threadCacheStore[t]) = "error"
       ELSE TRUE]_vars

\* C9's case: the run was aborted while its finalize fetch was pending and
\* the fetch has rejected
C9_Witness ==
    /\ last.op = "fetch_abort"
    /\ conn[1].aborted
    /\ fin[1].pc = "done"
    /\ globalError = Null
    /\ StatusOf(threadCacheStore["T1"]) = "idle"

\* C10: after an abort that came while the finalize fetch was pending or its
\* backoff was running, no step of the finalize procedure starts another
\* attempt or changes the thread's entry.
C10_AbortStopsTheRetryLoop ==
    [][IF last'.op \in FinalizeOps
       THEN fin[last'.conn].abortedAt > 0 =>
                /\ fin'[last'.conn].attempts = fin[last'.conn].attempts
                /\ threadCacheStore'[last'.thread] =
                       threadCacheStore[last'.thread]
       ELSE TRUE]_vars

\* C11: streamRun hands the controller to its caller without waiting for the
\* stream: while the connection of a run is open and delivers frames, the
\* caller holds the controller and can abort the run.
C11_HandleIsReturnedAtOnce ==
    \A c \in Conns : conn[c].phase = "open" => conn[c].returned

\* no session is active, or the active session has no UI state
NoUsableSession ==
    IF activeSessionId = Null THEN TRUE ELSE ~uiSessions[activeSessionId].exists

\* C12: a call of streamRun outside test mode, made when no session is active
\* or the active session has no UI state, opens no connection, leaves a
\* message in the Global Error Slot, returns a controller that is already
\* aborted and changes neither the Thread Cache nor the Session Registry.
C12_NoSessionFailsFast ==
    [][IF last'.op = "streamRun"
       THEN (~conn'[last'.conn].isTestMode /\ NoUsableSession) =>
                /\ conn'[last'.conn].phase = "rejected"
                /\ conn'[last'.conn].aborted
                /\ conn'[last'.conn].returned
                /\ globalError' # Null
                /\ threadCacheStore' = threadCacheStore
                /\ registry' = registry
       ELSE TRUE]_vars

\* C12's case: streamRun was called while the active session had no UI state
C12_Witness ==
    /\ last.op = "streamRun"
    /\ activeSessionId = "S1"
    /\ ~uiSessions["S1"].exists
    /\ conn[1].phase = "rejected"
    /\ conn[1].aborted
    /\ globalError = SessionStateMissing("S1")

\* C13: when an error frame with node n and error text e has been processed,
\* the Global Error Slot holds "Backend Error (n): e", and when the frame
\* resolves to a thread, that thread's entry has status error and the same
\* message as its error, also when the thread had no entry before.
C13_ErrorEventIsRecorded ==
    IF last.op = "error"
    THEN LET message == "Backend Error (" \o last.data.node \o "): "
                            \o last.data.error
         IN  /\ globalError = message
             /\ last.thread # Null =>
                    /\ threadCacheStore[last.thread] # NoEntry
                    /\ threadCacheStore[last.thread].status = "error"
                    /\ threadCacheStore[last.thread].error = message
    ELSE TRUE

\* C13's case: an error frame has been processed for a thread that had no
\* entry; the entry it made has no history
C13_Witness ==
    /\ last.op = "error"
    /\ last.thread = "T1"
    /\ threadCacheStore["T1"] # NoEntry
    /\ threadCacheStore["T1"].history = NoHistory
    /\ threadCacheStore["T1"].status = "error"
    /\ threadCacheStore["T1"].error = "Backend Error (n1): boom"
    /\ globalError = "Backend Error (n1): boom"

\* C14: once a thread's status is error, no chunk, ai_tool_chunk, tool_result
\* or end frame of the connection and no step of end's finalize fetch takes
\* the status away from error or changes the error message.
C14_ErrorIsTerminal ==
    [][IF last'.op \in UpdateTypes \cup {"end"} \cup FinalizeOps
       THEN IF last'.thread = Null THEN TRUE
            ELSE StatusOf(threadCacheStore[last'.thread]) = "error" =>
                     /\ StatusOf(threadCacheStore'[last'.thread]) = "error"
                     /\ threadCacheStore'[last'.thread].error =
                            threadCacheStore[last'.thread].error
       ELSE TRUE]_vars

\* C15: a frame that is no error frame and resolves to no thread (no thread
\* id in the frame, none in the request) is dropped: the Thread Cache, the
\* Session Registry and the finalize fetches are as before and the Global
\* Error Slot holds a message; an error frame that resolves to no thread is
\* processed: the Global Error Slot holds its Backend Error message.
C15_FrameWithoutThreadIsDropped ==
    [][IF last'.op \in FrameOps
       THEN last'.thread = Null =>
                IF last'.op = "error"
                THEN globalError' = "Backend Error (" \o last'.data.node
                                        \o "): " \o last'.data.error
                ELSE /\ threadCacheStore' = threadCacheStore
                     /\ registry' = registry
                     /\ fin' = fin
                     /\ globalError' # Null
       ELSE TRUE]_vars

\* C15's case: a run_start frame without a thread id has arrived on a run
\* that was started without one
C15_Witness ==
    /\ last.op = "run_start"
    /\ last.thread = Null
    /\ conn[1].threadIdToSend = Null
    /\ threadCacheStore["T1"] = NoEntry
    /\ globalError = "System Error: Event 'run_start' missing thread_id."

\* the tool calls an ai_tool_chunk of node can continue: those of the last
\* message when it is an AI message of that node
CallsToContinue(messages, node) ==
    IF Len(messages) = 0 THEN <<>>
    ELSE IF LastMsg(messages).type = "ai" /\ LastMsg(messages).nodeId = node
    THEN LastMsg(messages).tool_calls
    ELSE <<>>

\* C16: an ai_tool_chunk with args and without id, processed for a streaming
\* thread whose last AI message of that node has no tool call to continue,
\* leaves a message in the Global Error Slot.
C16_OrphanToolChunkIsSurfaced ==
    [][IF last'.op = "ai_tool_chunk" /\ last'.thread # Null
       THEN (/\ ~DropsUpdates(threadCacheStore[last'.thread])
             /\ HasHistory(threadCacheStore[last'.thread])
             /\ last'.data.id = Null
             /\ last'.data.args # Null
             /\ CallsToContinue(MessagesOf(threadCacheStore[last'.thread]),
                                last'.data.node) = <<>>)
                => globalError' # Null
       ELSE TRUE]_vars

\* C17: when a sequence of ai_tool_chunk frames of one node, the first with
\* an id and the following ones with args only, has been processed for a
\* streaming thread, the message list ends with an AI message of that node to
\* which the sequence has added one tool call: its last one, with the id of
\* the first frame and with args equal to the first frame's args followed by
\* every later fragment in order.
C17_ToolCallArgsAreConcatenated ==
    IF last.op = "ai_tool_chunk" /\ last.thread # Null
    THEN (/\ last.data.seq.open
          /\ ~DropsUpdates(threadCacheStore[last.thread])
          /\ HasHistory(threadCacheStore[last.thread])) =>
             LET messages == MessagesOf(threadCacheStore[last.thread])
             IN  /\ Len(messages) > 0
                 /\ LastMsg(messages).type = "ai"
                 /\ LastMsg(messages).nodeId = last.data.node
                 /\ LET calls == LastMsg(messages).tool_calls
                    IN  /\ Len(calls) = last.data.seq.calls
                        /\ calls[Len(calls)].id = last.data.seq.id
                        /\ calls[Len(calls)].args = last.data.seq.args
    ELSE TRUE

\* C17's case: a frame with id c1 and args x, then a frame with args y
C17_Witness ==
    /\ last.op = "ai_tool_chunk"
    /\ last.thread = "T1"
    /\ last.data.id = Null
    /\ last.data.seq.open
    /\ last.data.seq.args = "xy"
    /\ StatusOf(threadCacheStore["T1"]) = "streaming"
    /\ MessagesOf(threadCacheStore["T1"]) =
           <<AiMsg("", "n1", <<[id |-> "c1", name |-> "f", args |-> "xy"]>>)>>

\* C18: in test mode a run_start frame leaves the Session Registry as it is
\* and writes a streaming entry under the thread id the frame resolves to or,
\* when it resolves to none (streamRun was called without thread id and the
\* frame carries none), under the key test-thread.
C18_TestRunStartWritesSyntheticEntry ==
    [][IF last'.op = "run_start"
       THEN conn[last'.conn].isTestMode =>
                /\ registry' = registry
                /\ StatusOf(threadCacheStore'[IF last'.thread # Null
                                               THEN last'.thread
                                               ELSE "test-thread"]) = "streaming"
       ELSE TRUE]_vars

\* C19: in every state, for every thread with an entry, the entry's error is
\* present exactly when its status is error.
C19_ErrorIffStatusError ==
    \A t \in CacheKeys :
        threadCacheStore[t] # NoEntry =>
            (threadCacheStore[t].error # Null
                <=> threadCacheStore[t].status = "error")

\* the frames after run_start
LaterFrameOps == UpdateTypes \cup {"error", "end"}

\* C20 as stated: a chunk, ai_tool_chunk, tool_result, error or end frame for
\* a thread that has no entry, never made or evicted during the run, makes no entry
\* for it.
C20_OnlyRunStartCreatesEntry ==
    [][IF last'.op \in LaterFrameOps
       THEN IF last'.thread = Null THEN TRUE
            ELSE threadCacheStore[last'.thread] = NoEntry
                     => threadCacheStore'[last'.thread] = NoEntry
       ELSE TRUE]_vars

\* C20 amended: for a thread that has no entry, never made or evicted during
\* the run, a chunk, ai_tool_chunk or tool_result frame leaves the Thread
\* Cache as it is, while an error frame makes an entry without history whose
\* status is error and whose error is the frame's Backend Error message, and
\* an end frame makes an idle entry without history and without error.
C20_UpdateFramesCreateNoEntry ==
    [][IF last'.op \in LaterFrameOps
       THEN IF last'.thread = Null THEN TRUE
            ELSE IF threadCacheStore[last'.thread] # NoEntry THEN TRUE
            ELSE IF last'.op \in UpdateTypes
            THEN threadCacheStore' = threadCacheStore
            ELSE IF last'.op = "error"
            THEN threadCacheStore'[last'.thread] =
                     [history |-> NoHistory, status |-> "error",
                      error |-> "Backend Error (" \o last'.data.node
                                    \o "): " \o last'.data.error]
            ELSE threadCacheStore'[last'.thread] =
                     [history |-> NoHistory, status |-> "idle", error |-> Null]
       ELSE TRUE]_vars

\* C20's case: run_start has registered T1, the entry was evicted during the
\* run, and an end frame has been processed for it
C20_Witness ==
    /\ last.op = "end"
    /\ last.thread = "T1"
    /\ conn[1].phase = "open"
    /\ uiSessions["S1"].threadIds = <<"T1">>
    /\ threadCacheStore["T1"] =
           [history |-> NoHistory, status |-> "idle", error |-> Null]
    /\ fin[1].pc = "fetching"

\* C21: when opening the stream of a streamRun call has failed (a response
\* that is not ok, a network error), the Global Error Slot holds a message,
\* and that call sends its request no second time and processes no frame.
C21_OpenFailureIsFinal ==
    [][/\ IF last'.op \in {"onopen", "transport_fail"}
          THEN conn'[last'.conn].phase = "retrying" => globalError' # Null
          ELSE TRUE
       /\ \A c \in Conns :
              conn[c].phase = "retrying"
                  => conn'[c].phase \notin {"connecting", "open"}]_vars

\* C22: while a run on thread T1 and a run on thread T2 are in flight, every
\* frame of one run and every step of its finalize fetch leaves the entry of
\* every other thread as it was.
C22_RunsDoNotInterfere ==
    [][IF last'.op \in FrameOps \cup FinalizeOps
       THEN \A t \in CacheKeys :
                t # conn[last'.conn].threadIdToSend
                    => threadCacheStore'[t] = threadCacheStore[t]
       ELSE TRUE]_vars

\* C22's case: a test run on T2 has processed run_start and a chunk while
\* the session run on T1 was streaming, and T1 has got its next chunk
C22_Witness ==
    /\ last.op = "chunk"
    /\ last.conn = 1
    /\ conn[1].phase = "open"
    /\ conn[2].phase = "open"
    /\ conn[2].isTestMode
    /\ StatusOf(threadCacheStore["T1"]) = "streaming"
    /\ StatusOf(threadCacheStore["T2"]) = "streaming"
    /\ MessagesOf(threadCacheStore["T1"]) = <<AiMsg("aa", "n1", <<>>)>>
    /\ MessagesOf(threadCacheStore["T2"]) =
           <<HumanMsg("a"), AiMsg("a", "n1", <<>>)>>

\* C23: when a chunk or ai_tool_chunk has been processed for a thread whose
\* entry accepts updates, the entry object that was published before the
\* frame, with its history, its message list and the messages in it, reads
\* as it read before.
C23_UpdatesReplaceAndNeverMutate ==
    [][IF last'.op \in {"chunk", "ai_tool_chunk"}
       THEN IF last'.thread = Null THEN TRUE
            ELSE AcceptsUpdates(threadCacheStore[last'.thread])
                     => replaced' = threadCacheStore[last'.thread]
       ELSE TRUE]_vars

\* C24: when a run that continues T1, idle with two prior messages and in
\* the active session's thread list, has processed run_start with the new
\* human message, one chunk or more and then end, the entry of T1 holds three
\* or more messages, is idle and has no error, and the session's thread list
\* is as before.
C24_ContinuedThreadHoldsTheExchange ==
    [][IF last'.op = "end" /\ last'.thread = "T1"
       THEN (/\ chunkRun["T1"].pure
             /\ chunkRun["T1"].node # Null
             /\ chunkRun["T1"].baseLen >= 2) =>
                /\ Len(MessagesOf(threadCacheStore'["T1"])) >= 3
                /\ StatusOf(threadCacheStore'["T1"]) = "idle"
                /\ threadCacheStore'["T1"].error = Null
                /\ uiSessions'["S1"].threadIds = <<"T1">>
       ELSE TRUE]_vars

\* C25: a chunk or ai_tool_chunk of a run (one that follows the run's
\* run_start with nothing but chunks of one node in between) leaves every
\* message as it is that the thread's list held when run_start had been
\* processed, also an AI message of the frame's node.
C25_EarlierTurnsAreNotExtended ==
    [][IF last'.op \in {"chunk", "ai_tool_chunk"}
       THEN IF last'.thread = Null THEN TRUE
            ELSE (/\ AcceptsUpdates(threadCacheStore[last'.thread])
                  /\ chunkRun[last'.thread].pure) =>
                     \A i \in 1..chunkRun[last'.thread].baseLen :
                         MessagesOf(threadCacheStore'[last'.thread])[i] =
                             MessagesOf(threadCacheStore[last'.thread])[i]
       ELSE TRUE]_vars

\* C26: after removeEntry(threadId), from any state, the thread has no entry
\* and isLoading(threadId) is false, and the call has returned true exactly
\* when the thread had an entry.
C26_RemoveClearsEntryAndLoadingFlag ==
    [][IF last'.op = "removeEntry"
       THEN /\ threadCacheStore'[last'.thread] = NoEntry
            /\ last'.thread \notin loadingThreadIds'
            /\ last'.data.returned = (threadCacheStore[last'.thread] # NoEntry)
       ELSE TRUE]_vars

\* the step before was the run_start of another run than c, open on
\* threadId, and has set threadId to streaming
NewerRunHasStarted(c, threadId) ==
    /\ last.op = "run_start"
    /\ last.thread = threadId
    /\ last.conn \in Conns \ {c}
    /\ conn[last.conn].phase = "open"
    /\ StatusOf(threadCacheStore[threadId]) = "streaming"

\* C27: when the run_start of another run has just set a thread to streaming
\* while the finalize fetch that the end of an earlier run started is pending
\* or backing off, the next step of that fetch (it settles, its backoff
\* elapses) changes neither the thread's status nor its history.
C27_StaleFetchLeavesNewerRun ==
    [][IF last'.op \in FinalizeOps
       THEN NewerRunHasStarted(last'.conn, last'.thread) =>
                /\ threadCacheStore'[last'.thread].status = "streaming"
                /\ threadCacheStore'[last'.thread].history =
                       threadCacheStore[last'.thread].history
       ELSE TRUE]_vars

\* the connection of run c has terminated: the stream is closed or the caller
\* has aborted the controller
RunHasTerminated(c) == conn[c].phase = "closed" \/ conn[c].aborted

\* C28: whenever the connection of a run on a thread has terminated and the
\* thread is streaming, the thread becomes idle or error at some later moment.
C28_StreamingEndsWithTheRun ==
    \A c \in Conns : \A t \in ThreadIds :
        (/\ RunHasTerminated(c)
         /\ conn[c].threadIdToSend = t
         /\ StatusOf(threadCacheStore[t]) = "streaming")
            ~> (StatusOf(threadCacheStore[t]) \in {"idle", "error"})

\* C29: a run_start frame that resolves to a thread (the frame's thread_id,
\* else the requested thread ID) writes its streaming entry under that
\* thread's key and writes no other key.
C29_RunStartKeyIsTheResolvedThread ==
    [][IF last'.op = "run_start"
       THEN IF last'.thread = Null THEN TRUE
            ELSE /\ StatusOf(threadCacheStore'[last'.thread]) = "streaming"
                 /\ \A t \in CacheKeys \ {last'.thread} :
                        threadCacheStore'[t] = threadCacheStore[t]
       ELSE TRUE]_vars

\* new is old with messages appended, or with its last message, an AI
\* message, extended by the frame: a chunk appends to its content, an
\* ai_tool_chunk adds a tool call or appends to the args of its last one
AppendsOrExtendsLast(old, new, eventType, eventData) ==
    /\ Len(new) >= Len(old)
    /\ \A i \in 1..Len(old) :
           IF i < Len(old) \/ old[i].type # "ai" \/ new[i] = old[i]
           THEN new[i] = old[i]
           ELSE /\ new[i].type = "ai"
                /\ new[i].nodeId = old[i].nodeId
                /\ Len(new) = Len(old)
                /\ IF eventType = "chunk"
                   THEN /\ new[i].content = old[i].content \o eventData.content
                        /\ new[i].tool_calls = old[i].tool_calls
                   ELSE /\ eventType = "ai_tool_chunk"
                        /\ new[i].content = old[i].content
                        /\ Len(new[i].tool_calls) >= Len(old[i].tool_calls)
                        /\ \A j \in 1..(Len(old[i].tool_calls) - 1) :
                               new[i].tool_calls[j] = old[i].tool_calls[j]

\* a chunk that arrives after a message of its node that is no AI message
\* starts a new AI message with its content
StartsNewAiMessage(old, new, eventType, eventData) ==
    IF eventType # "chunk" \/ Len(old) = 0 THEN TRUE
    ELSE (LastMsg(old).type # "ai" /\ LastMsg(old).nodeId = eventData.node) =>
             new = Append(old, AiMsg(eventData.content, eventData.node, <<>>))

\* C30: a chunk, ai_tool_chunk or tool_result that is accepted for a
\* streaming thread appends to the message list or extends its last message:
\* the list gets no shorter, every message but the last is unchanged, no
\* human or tool message is changed, and a chunk after a message of its node
\* that is no AI message starts a new AI message holding the chunk's content.
C30_UpdatesAppendOrExtend ==
    [][IF last'.op \in UpdateTypes
       THEN IF last'.thread = Null THEN TRUE
            ELSE AcceptsUpdates(threadCacheStore[last'.thread]) =>
                     LET old == MessagesOf(threadCacheStore[last'.thread])
                         new == MessagesOf(threadCacheStore'[last'.thread])
                     IN  /\ AppendsOrExtendsLast(old, new, last'.op, last'.data)
                         /\ StartsNewAiMessage(old, new, last'.op, last'.data)
       ELSE TRUE]_vars

\* C30's case: a chunk of node n1 has arrived after a tool message of node n1
C30_Witness ==
    /\ last.op = "chunk"
    /\ last.thread = "T1"
    /\ StatusOf(threadCacheStore["T1"]) = "streaming"
    /\ MessagesOf(threadCacheStore["T1"]) =
           <<ToolMsg("r", "n1", "c1", "f", FALSE), AiMsg("a", "n1", <<>>)>>

====
